---- MODULE Spec2Model ----
(***************************************************************************)
(* The regeneration relay of api/regenerate.js: the default export's       *)
(* async fetch(request) handler, which validates a request, issues one     *)
(* call to the Gemini image endpoint and maps the answer to a JSON         *)
(* response.  Each invocation is a coroutine that is suspended at its      *)
(* awaits (request.json(), fetch(), response.text(), response.json()).     *)
(***************************************************************************)
EXTENDS Integers, Sequences, FiniteSets, TLC

VARIABLES env, pc, request, apiKey, sent, upstream, log, result

vars == <<env, pc, request, apiKey, sent, upstream, log, result>>

(***************************************************************************)
(* Bounds of the model.                                                    *)
(***************************************************************************)
\* number of invocations of the handler, which may overlap in time
NInv == 1
\* longest list of content parts the provider answers with
MaxParts == 2
\* longest upstream error body, in characters
MaxText == 301
\* invocations in flight together in the concurrent specification
NConc == 2

Invocations == 1..NInv

(***************************************************************************)
(* Program constants.                                                      *)
(***************************************************************************)
GEMINI_API_BASE == "https://generativelanguage.googleapis.com/v1beta/models"
MODEL == "gemini-3-pro-image-preview"
\* errorText.slice(0, 200)
SliceEnd == 200
DefaultMimeType == "image/png"

(***************************************************************************)
(* JavaScript values.  A value is a record tagged with its type.           *)
(***************************************************************************)
Undefined == [t |-> "undefined"]
Null == [t |-> "null"]
Str(s) == [t |-> "string", s |-> s]
Num(n) == [t |-> "number", n |-> n]
Obj(f) == [t |-> "object", f |-> f]
Arr(e) == [t |-> "array", e |-> e]
EmptyObj == Obj(<<>>)

\* ToBoolean, as used by !x, x || y and if (x)
Truthy(v) ==
    CASE v.t = "undefined" -> FALSE
      [] v.t = "null" -> FALSE
      [] v.t = "string" -> v.s # ""
      [] v.t = "number" -> v.n # 0
      [] OTHER -> TRUE

\* v is null or undefined: v.k throws a TypeError, v?.k is undefined
Nullish(v) == v.t \in {"undefined", "null"}

\* v.k for a v that is not nullish
Get(v, k) ==
    IF v.t = "object" /\ k \in DOMAIN v.f THEN v.f[k] ELSE Undefined

\* v?.k
OptGet(v, k) == IF Nullish(v) THEN Undefined ELSE Get(v, k)

\* v?.[0]
OptFirst(v) ==
    IF v.t = "array" /\ Len(v.e) > 0 THEN v.e[1]
    ELSE IF v.t = "string" /\ Len(v.s) > 0 THEN Str(SubSeq(v.s, 1, 1))
    ELSE Undefined

\* a || b
Or(a, b) == IF Truthy(a) THEN a ELSE b

\* v has [Symbol.iterator]: for (const part of v) does not throw at once
Iterable(v) == v.t \in {"array", "string"}

\* the values for..of yields
Elements(v) ==
    IF v.t = "array" THEN v.e
    ELSE [i \in 1..Len(v.s) |-> Str(SubSeq(v.s, i, i))]

\* Slice0 as the bug that relays the whole text
Slice0_NoTruncation(s, end) == s

\* String.prototype.slice(0, end) for end >= 0
Slice0(s, end) == SubSeq(s, 1, IF Len(s) < end THEN Len(s) ELSE end)

(***************************************************************************)
(* JSON.stringify on the object literals the handler builds.  Keys are     *)
(* written in insertion order, which for every literal of the handler is   *)
(* the order of KeyOrder; a key whose value is undefined is left out.      *)
(* The strings of the model hold no character that JSON escapes.           *)
(***************************************************************************)
KeyOrder == <<"contents", "parts", "text", "generationConfig",
              "responseModalities", "imageConfig", "aspectRatio",
              "imageSize", "image", "mimeType", "error">>

RECURSIVE JoinComma(_)
JoinComma(ss) ==
    IF Len(ss) = 0 THEN ""
    ELSE IF Len(ss) = 1 THEN ss[1]
    ELSE ss[1] \o "," \o JoinComma(Tail(ss))

RECURSIVE JSONstringify(_)
JSONstringify(v) ==
    CASE v.t = "null" -> "null"
      [] v.t = "undefined" -> "null"
      [] v.t = "string" -> "\"" \o v.s \o "\""
      [] v.t = "number" -> ToString(v.n)
      [] v.t = "array" ->
            "[" \o JoinComma([i \in 1..Len(v.e) |-> JSONstringify(v.e[i])]) \o "]"
      [] v.t = "object" ->
            LET present(k) == k \in DOMAIN v.f /\ v.f[k].t # "undefined"
                keys == SelectSeq(KeyOrder, present)
            IN  "{" \o JoinComma([i \in 1..Len(keys) |->
                        "\"" \o keys[i] \o "\":" \o JSONstringify(v.f[keys[i]])])
                    \o "}"

\* function jsonResponse(data, status = 200)
jsonResponse(data, status) ==
    [status |-> status,
     contentType |-> "application/json",
     body |-> JSONstringify(data)]

(***************************************************************************)
(* Outcomes of a piece of handler code: it returns a Response or throws.   *)
(***************************************************************************)
Return(resp) == [kind |-> "response", response |-> resp]
Throw(err) == [kind |-> "threw", err |-> err]
Pending == [kind |-> "none"]

Error(name, message) == [name |-> name, message |-> message]

\* reading property k of null or undefined
TypeErrorRead(v, k) ==
    Error("TypeError",
          "Cannot read properties of " \o v.t \o " (reading '" \o k \o "')")

\* console.error(label, ...args)
LogEntry(label, args) == [label |-> label, args |-> args]

(***************************************************************************)
(* The handler, piece by piece.                                            *)
(***************************************************************************)
\* MethodAllowed as the bug that refuses GET only
MethodAllowed_OnlyGetRefused(method) == method # "GET"

\* line 18: request.method !== "POST" is false
MethodAllowed(method) == method = "POST"

\* line 19
MethodNotAllowed == jsonResponse(Obj([error |-> Str("Method not allowed")]), 405)

\* KeyConfigured as the bug that tests apiKey === undefined
KeyConfigured_DefinedOnly(key) == key.t # "undefined"

\* line 23: !apiKey is false
KeyConfigured(key) == Truthy(key)

\* lines 24-30
Misconfigured ==
    jsonResponse(
        Obj([error |->
             Str("GEMINI_API_KEY not configured. Add it in Vercel project settings.")]),
        500)

\* line 37
InvalidJsonBody == jsonResponse(Obj([error |-> Str("Invalid JSON body")]), 400)

\* line 41: !prompt || typeof prompt !== "string" is false
PromptValid(prompt) == Truthy(prompt) /\ prompt.t = "string"

\* line 42
PromptRequired == jsonResponse(Obj([error |-> Str("prompt is required")]), 400)

\* lines 45-54
RequestBody(prompt) ==
    Obj([contents |-> Arr(<<Obj([parts |-> Arr(<<Obj([text |-> prompt])>>)])>>),
         generationConfig |->
             Obj([responseModalities |-> Arr(<<Str("TEXT"), Str("IMAGE")>>),
                  imageConfig |-> Obj([aspectRatio |-> Str("4:3"),
                                       imageSize |-> Str("2K")])])])

\* line 56
Url(key) == GEMINI_API_BASE \o "/" \o MODEL \o ":generateContent?key=" \o key.s

\* lines 59-63: the outbound call
OutboundCall(key, prompt) ==
    [url |-> Url(key),
     method |-> "POST",
     contentType |-> "application/json",
     body |-> JSONstringify(RequestBody(prompt))]

\* response.ok
Ok(status) == status >= 200 /\ status <= 299

\* lines 68-73
UpstreamHttpError(status, errorText) ==
    jsonResponse(
        Obj([error |-> Str("Gemini API error (" \o ToString(status) \o "): "
                           \o Slice0(errorText, SliceEnd))]),
        502)

\* lines 79-82
EmbeddedError(data) ==
    jsonResponse(
        Obj([error |-> Or(Get(Get(data, "error"), "message"),
                          Str("Gemini API error"))]),
        502)

\* line 85: data.candidates?.[0]?.content?.parts
CandidateParts(data) ==
    OptGet(OptGet(OptFirst(Get(data, "candidates")), "content"), "parts")

\* lines 86-89
NoContent == jsonResponse(Obj([error |-> Str("No image in Gemini response")]), 502)

\* lines 104-107
NoImageData ==
    jsonResponse(Obj([error |-> Str("No image data in Gemini response")]), 502)

\* Success as the bug that drops the declared MIME type
Success_DefaultMime(base64Data, mimeType) ==
    jsonResponse(Obj([image |-> base64Data, mimeType |-> Str(DefaultMimeType)]), 200)

\* lines 110-113
Success(base64Data, mimeType) ==
    jsonResponse(Obj([image |-> base64Data, mimeType |-> mimeType]), 200)

\* line 96: part.inlineData?.data is truthy (part is not nullish)
CarriesImage(part) == Truthy(OptGet(Get(part, "inlineData"), "data"))

\* ScanParts as the bug that has no break: a later image part overwrites
\* the result of an earlier one
RECURSIVE ScanParts_NoBreak(_, _)
ScanParts_NoBreak(parts, i) ==
    IF i > Len(parts) THEN
        [kind |-> "scanned", base64Data |-> Null, mimeType |-> Str(DefaultMimeType)]
    ELSE IF Nullish(parts[i]) THEN
        Throw(TypeErrorRead(parts[i], "inlineData"))
    ELSE LET rest == ScanParts_NoBreak(parts, i + 1) IN
         IF rest.kind = "threw" \/ Truthy(rest.base64Data) \/ ~CarriesImage(parts[i])
         THEN rest
         ELSE [kind |-> "scanned",
               base64Data |-> Get(Get(parts[i], "inlineData"), "data"),
               mimeType |-> Or(Get(Get(parts[i], "inlineData"), "mimeType"),
                               Str(DefaultMimeType))]

\* lines 92-101: the scan of the parts, from element i on
RECURSIVE ScanParts(_, _)
ScanParts(parts, i) ==
    IF i > Len(parts) THEN
        [kind |-> "scanned", base64Data |-> Null, mimeType |-> Str(DefaultMimeType)]
    ELSE IF Nullish(parts[i]) THEN
        Throw(TypeErrorRead(parts[i], "inlineData"))
    ELSE IF CarriesImage(parts[i]) THEN
        [kind |-> "scanned",
         base64Data |-> Get(Get(parts[i], "inlineData"), "data"),
         mimeType |-> Or(Get(Get(parts[i], "inlineData"), "mimeType"),
                         Str(DefaultMimeType))]
    ELSE ScanParts(parts, i + 1)

\* HasEmbeddedError as the bug that lets content win over the error
HasEmbeddedError_UnlessContent(data) ==
    Truthy(Get(data, "error")) /\ ~Truthy(CandidateParts(data))

\* line 78: data.error is truthy (data is not nullish)
HasEmbeddedError(data) == Truthy(Get(data, "error"))

\* HasContent as the bug that tests parts?.length
HasContent_NonEmpty(data) ==
    /\ Truthy(CandidateParts(data))
    /\ CandidateParts(data).t = "array" => Len(CandidateParts(data).e) > 0

\* line 85: !data.candidates?.[0]?.content?.parts is false
HasContent(data) == Truthy(CandidateParts(data))

\* lines 78-113: what the try block does with the parsed upstream body
Interpret(data) ==
    IF Nullish(data) THEN Throw(TypeErrorRead(data, "error"))
    ELSE IF HasEmbeddedError(data) THEN Return(EmbeddedError(data))
    ELSE IF ~HasContent(data) THEN Return(NoContent)
    ELSE IF ~Iterable(CandidateParts(data)) THEN
        Throw(Error("TypeError",
                    "data.candidates[0].content.parts is not iterable"))
    ELSE LET scan == ScanParts(Elements(CandidateParts(data)), 1)
         IN  IF scan.kind = "threw" THEN scan
             ELSE IF ~Truthy(scan.base64Data) THEN Return(NoImageData)
             ELSE Return(Success(scan.base64Data, scan.mimeType))

\* lines 116-119
InternalError(err) ==
    jsonResponse(Obj([error |-> Or(Str(err.message), Str("Internal server error"))]),
                 500)

\* line 115
CatchLog(err) == LogEntry("Regenerate error:", <<err>>)

\* line 67
HttpErrorLog(status, errorText) ==
    LogEntry("Gemini API error:", <<Num(status), Str(errorText)>>)

(***************************************************************************)
(* Inputs: the environment, the requests and the provider's behaviours.    *)
(***************************************************************************)
\* process.env.GEMINI_API_KEY: unset, set to the empty string, or set
EnvValues == {Undefined, Str(""), Str("key-A")}

Methods == {"POST", "GET", "DELETE"}

\* what await request.json() settles with
Parsed(v) == [parses |-> TRUE, value |-> v]
Malformed == [parses |-> FALSE, value |-> Undefined]

RequestBodies ==
    {Malformed} \cup
    {Parsed(v) : v \in {Null, Num(5), Str("make the sofa red"), Arr(<<>>),
                        EmptyObj,
                        Obj([prompt |-> Null]),
                        Obj([prompt |-> Str("")]),
                        Obj([prompt |-> Num(5)]),
                        Obj([prompt |-> Str("make the sofa red")])}}

Requests == [method : Methods, body : RequestBodies]

\* a text of n characters whose k-th character is the digit (k-1) mod 10
RECURSIVE Text(_)
Text(n) ==
    IF n < 10 THEN SubSeq("0123456789", 1, n)
    ELSE "0123456789" \o Text(n - 10)

TextLengths == {0, 3, SliceEnd, SliceEnd + 1, MaxText}

\* bodies of an upstream response: a text that is not JSON, a JSON value,
\* or a body whose stream breaks while it is read
TextBody(s) == [kind |-> "text", text |-> s, value |-> Undefined]
JsonBody(v) == [kind |-> "json", text |-> "", value |-> v]
Unreadable == [kind |-> "unreadable", text |-> "", value |-> Undefined]

TextPart == Obj([text |-> Str("Here is your image")])
ImagePart(data, mimeType) ==
    Obj([inlineData |-> Obj([data |-> Str(data), mimeType |-> Str(mimeType)])])
ImagePartNoMime(data) == Obj([inlineData |-> Obj([data |-> Str(data)])])

PartValues ==
    {Null, TextPart,
     ImagePart("/9j/4AAQ", "image/jpeg"),
     ImagePartNoMime("iVBORw0K"),
     ImagePart("", "image/png")}

PartLists == UNION {[1..n -> PartValues] : n \in 0..MaxParts}

\* values of content.parts: lists of parts, and values that are no list
PartsValues ==
    {Arr(ps) : ps \in PartLists} \cup {Null, Num(0), Str(""), Str("ab"), EmptyObj}

ContentValues == {Null, EmptyObj} \cup {Obj([parts |-> p]) : p \in PartsValues}

CandidateValues == {Null, EmptyObj} \cup {Obj([content |-> c]) : c \in ContentValues}

ImageCandidate ==
    Obj([content |-> Obj([parts |-> Arr(<<ImagePart("QQ==", "image/png")>>)])])

CandidatesValues ==
    {Null, Arr(<<>>), Arr(<<EmptyObj, ImageCandidate>>)}
        \cup {Arr(<<c>>) : c \in CandidateValues}

ErrorValues ==
    {Null, Str("boom"), EmptyObj,
     Obj([message |-> Str("")]),
     Obj([message |-> Str("Quota exceeded")])}

JsonValues ==
    {Null, Num(5), Str("ok"), Arr(<<>>), EmptyObj}
        \cup {Obj([candidates |-> c]) : c \in CandidatesValues}
        \cup {Obj([error |-> e]) : e \in ErrorValues}
        \cup {Obj([error |-> e, candidates |-> Arr(<<ImageCandidate>>)]) :
                    e \in ErrorValues}

Statuses == {200, 299, 300, 503}

\* the bodies that come with a status: texts and broken streams with every
\* status, every JSON value with 200, and some of them with 299
Bodies ==
    [status \in Statuses |->
        {TextBody(Text(n)) : n \in TextLengths} \cup {Unreadable}
        \cup (IF status = 200 THEN {JsonBody(v) : v \in JsonValues}
              ELSE IF status = 299 THEN
                  {JsonBody(v) : v \in {Null, EmptyObj,
                                        Obj([error |-> Obj([message |-> Str("Quota exceeded")])]),
                                        Obj([candidates |-> Arr(<<ImageCandidate>>)])}}
              ELSE {})]

\* the body of a response whose headers have arrived
NotRead == [kind |-> "notRead", text |-> "", value |-> Undefined]

\* errors fetch() rejects with
FetchErrors == {Error("TypeError", "fetch failed"), Error("Error", "")}

NoUpstream == [kind |-> "none"]
Rejected(err) == [kind |-> "rejected", err |-> err]

\* errors reading a body rejects with
BodyStreamError == Error("TypeError", "terminated")
JsonSyntaxError == Error("SyntaxError", "Unexpected token in JSON")

(***************************************************************************)
(* State.                                                                  *)
(*   env       process.env.GEMINI_API_KEY                                  *)
(*   pc        where each invocation stands                                *)
(*   request   the request of each invocation                              *)
(*   apiKey    the const apiKey of each invocation                         *)
(*   sent      the outbound calls each invocation has issued               *)
(*   upstream  what the outbound call settled with                         *)
(*   log       the console.error entries of each invocation                *)
(*   result    what the invocation's promise settled with                  *)
(***************************************************************************)
NoRequest == [method |-> "", body |-> Malformed]

Init ==
    /\ env \in EnvValues
    /\ pc = [i \in Invocations |-> "idle"]
    /\ request = [i \in Invocations |-> NoRequest]
    /\ apiKey = [i \in Invocations |-> Undefined]
    /\ sent = [i \in Invocations |-> <<>>]
    /\ upstream = [i \in Invocations |-> NoUpstream]
    /\ log = [i \in Invocations |-> <<>>]
    /\ result = [i \in Invocations |-> Pending]

\* the operator changes the project's environment between or during calls
SetEnv(v) ==
    /\ v # env
    /\ env' = v
    /\ UNCHANGED <<pc, request, apiKey, sent, upstream, log, result>>

\* Settle as the bug that keeps the outcome in a module-level variable every
\* settled invocation answers from
Settle_Shared(i, o) ==
    /\ pc' = [pc EXCEPT ![i] = "done"]
    /\ result' = [j \in DOMAIN result |->
                    IF j = i \/ pc[j] = "done" THEN o ELSE result[j]]

\* the invocation settles with outcome o
Settle(i, o) ==
    /\ pc' = [pc EXCEPT ![i] = "done"]
    /\ result' = [result EXCEPT ![i] = o]

\* lines 114-120: the catch block
Catch(i, err) ==
    /\ log' = [log EXCEPT ![i] = Append(@, CatchLog(err))]
    /\ Settle(i, Return(InternalError(err)))

\* lines 17-35: a request arrives; the handler runs to await request.json()
Receive(i, req) ==
    /\ pc[i] = "idle"
    /\ request' = [request EXCEPT ![i] = req]
    /\ UNCHANGED <<sent, upstream, log>>
    /\ IF ~MethodAllowed(req.method) THEN
            /\ apiKey' = [apiKey EXCEPT ![i] = Undefined]
            /\ Settle(i, Return(MethodNotAllowed))
       ELSE /\ apiKey' = [apiKey EXCEPT ![i] = env]
            /\ IF ~KeyConfigured(env) THEN Settle(i, Return(Misconfigured))
               ELSE /\ pc' = [pc EXCEPT ![i] = "awaitRequestJson"]
                    /\ result' = [result EXCEPT ![i] = Pending]
    /\ UNCHANGED env

\* lines 33-63: request.json() settles; the handler runs to await fetch()
RequestJsonSettled(i) ==
    /\ pc[i] = "awaitRequestJson"
    /\ LET body == request[i].body IN
       IF ~body.parses THEN
            /\ Settle(i, Return(InvalidJsonBody))
            /\ UNCHANGED sent
       ELSE IF Nullish(body.value) THEN
            \* line 40, outside every try block
            /\ Settle(i, Throw(TypeErrorRead(body.value, "prompt")))
            /\ UNCHANGED sent
       ELSE IF ~PromptValid(Get(body.value, "prompt")) THEN
            /\ Settle(i, Return(PromptRequired))
            /\ UNCHANGED sent
       ELSE /\ sent' = [sent EXCEPT ![i] =
                    Append(@, OutboundCall(apiKey[i], Get(body.value, "prompt")))]
            /\ pc' = [pc EXCEPT ![i] = "awaitFetch"]
            /\ UNCHANGED result
    /\ UNCHANGED <<env, request, apiKey, upstream, log>>

\* FetchRejected as the bug that retries the call once before giving up
FetchRejected_Retry(i, err) ==
    /\ pc[i] = "awaitFetch"
    /\ IF Len(sent[i]) < 2 THEN
            /\ sent' = [sent EXCEPT ![i] = Append(@, sent[i][1])]
            /\ UNCHANGED <<upstream, pc, log, result>>
       ELSE /\ upstream' = [upstream EXCEPT ![i] = Rejected(err)]
            /\ Catch(i, err)
            /\ UNCHANGED sent
    /\ UNCHANGED <<env, request, apiKey>>

\* line 59: fetch() rejects
FetchRejected(i, err) ==
    /\ pc[i] = "awaitFetch"
    /\ upstream' = [upstream EXCEPT ![i] = Rejected(err)]
    /\ Catch(i, err)
    /\ UNCHANGED <<env, request, apiKey, sent>>

\* lines 59-66, 76: fetch() resolves with the status and headers of the
\* response; the handler awaits the body
FetchResolved(i, status) ==
    /\ pc[i] = "awaitFetch"
    /\ upstream' = [upstream EXCEPT ![i] =
            [kind |-> "response", status |-> status, body |-> NotRead]]
    /\ pc' = [pc EXCEPT ![i] = IF Ok(status) THEN "awaitJson" ELSE "awaitText"]
    /\ UNCHANGED <<env, request, apiKey, sent, log, result>>

\* lines 66-74: response.text() settles, the body, one of bodies, having
\* arrived
TextSettledFrom(i, bodies) ==
    /\ pc[i] = "awaitText"
    /\ \E body \in bodies :
        /\ upstream' = [upstream EXCEPT ![i].body = body]
        /\ LET \* the text of a JSON body is not modelled: JSON bodies only
               \* come with a success status
               errorText == body.text
           IN  IF body.kind = "unreadable" THEN Catch(i, BodyStreamError)
               ELSE /\ log' = [log EXCEPT ![i] =
                            Append(@, HttpErrorLog(upstream[i].status, errorText))]
                    /\ Settle(i, Return(UpstreamHttpError(upstream[i].status, errorText)))
    /\ UNCHANGED <<env, request, apiKey, sent>>

TextSettled(i) == TextSettledFrom(i, Bodies[upstream[i].status])

\* lines 76-120: response.json() settles, the body, one of bodies, having
\* arrived
JsonSettledFrom(i, bodies) ==
    /\ pc[i] = "awaitJson"
    /\ \E body \in bodies :
        /\ upstream' = [upstream EXCEPT ![i].body = body]
        /\ IF body.kind = "unreadable" THEN Catch(i, BodyStreamError)
           ELSE IF body.kind = "text" THEN Catch(i, JsonSyntaxError)
           ELSE LET o == Interpret(body.value) IN
                IF o.kind = "threw" THEN Catch(i, o.err)
                ELSE /\ Settle(i, o)
                     /\ UNCHANGED log
    /\ UNCHANGED <<env, request, apiKey, sent>>

JsonSettled(i) == JsonSettledFrom(i, Bodies[upstream[i].status])

Next ==
    \/ \E v \in EnvValues : SetEnv(v)
    \/ \E i \in Invocations, req \in Requests : Receive(i, req)
    \/ \E i \in Invocations : RequestJsonSettled(i)
    \/ \E i \in Invocations, err \in FetchErrors : FetchRejected(i, err)
    \/ \E i \in Invocations, status \in Statuses : FetchResolved(i, status)
    \/ \E i \in Invocations : TextSettled(i)
    \/ \E i \in Invocations : JsonSettled(i)

Spec == Init /\ [][Next]_vars

TypeOK ==
    /\ env \in EnvValues
    /\ \A i \in Invocations :
        pc[i] \in {"idle", "awaitRequestJson", "awaitFetch", "awaitText",
                   "awaitJson", "done"}

(***************************************************************************)
(* Vocabulary of the properties.  It reads the requests, the provider's    *)
(* answers and the responses as data, without the handler's operators.     *)
(***************************************************************************)
Has(v, k) == v.t = "object" /\ k \in DOMAIN v.f
NonEmptyString(v) == v.t = "string" /\ v.s # ""

StartsWith(s, prefix) ==
    Len(s) >= Len(prefix) /\ SubSeq(s, 1, Len(prefix)) = prefix
EndsWith(s, suffix) ==
    Len(s) >= Len(suffix) /\ SubSeq(s, Len(s) - Len(suffix) + 1, Len(s)) = suffix
Contains(s, sub) ==
    \E k \in 1..(Len(s) - Len(sub) + 1) : SubSeq(s, k, k + Len(sub) - 1) = sub

\* the JSON texts of the two response variants
SuccessBody(image, mimeType) ==
    "{\"image\":\"" \o image \o "\",\"mimeType\":\"" \o mimeType \o "\"}"
FailureBody(message) == "{\"error\":\"" \o message \o "\"}"

Finished(i) == pc[i] = "done"
IsPost(i) == request[i].method = "POST"
\* the credential the invocation read is a non-empty string
CredentialPresent(i) == NonEmptyString(apiKey[i])
\* the body is a JSON object with a non-empty string prompt
WellFormedPrompt(i) ==
    /\ request[i].body.parses
    /\ Has(request[i].body.value, "prompt")
    /\ NonEmptyString(request[i].body.value.f.prompt)
Validated(i) == IsPost(i) /\ CredentialPresent(i) /\ WellFormedPrompt(i)

\* the invocation returned a JSON response with this status and body
Responds(i, status, body) ==
    /\ result[i].kind = "response"
    /\ result[i].response.status = status
    /\ result[i].response.contentType = "application/json"
    /\ result[i].response.body = body

\* the provider answered with a success status and a body that parses
UpstreamOkJson(i) ==
    /\ upstream[i].kind = "response"
    /\ upstream[i].status \in 200..299
    /\ upstream[i].body.kind = "json"
UpstreamData(i) == upstream[i].body.value

\* the body has a truthy error member (the inputs hold no falsy one but null)
CarriesError(v) == Has(v, "error") /\ v.f.error.t # "null"

\* candidates[0].content.parts exists and is a list
HasPartsList(v) ==
    /\ Has(v, "candidates")
    /\ v.f.candidates.t = "array"
    /\ Len(v.f.candidates.e) >= 1
    /\ Has(v.f.candidates.e[1], "content")
    /\ Has(v.f.candidates.e[1].f.content, "parts")
    /\ v.f.candidates.e[1].f.content.f.parts.t = "array"
PartsList(v) == v.f.candidates.e[1].f.content.f.parts.e

\* the part carries inline image data
IsImagePart(p) ==
    /\ Has(p, "inlineData")
    /\ Has(p.f.inlineData, "data")
    /\ NonEmptyString(p.f.inlineData.f.data)
ImageData(p) == p.f.inlineData.f.data.s
DeclaresMime(p) ==
    Has(p.f.inlineData, "mimeType") /\ NonEmptyString(p.f.inlineData.f.mimeType)
DeclaredMime(p) == p.f.inlineData.f.mimeType.s
MimeTypes == {"image/png", "image/jpeg"}

\* the first part of the list that carries inline image data
FirstImage(ps) ==
    CHOOSE k \in 1..Len(ps) :
        IsImagePart(ps[k]) /\ \A j \in 1..(k - 1) : ~IsImagePart(ps[j])

C2_InvalidInputRejected ==
    \A i \in Invocations :
        (Finished(i) /\ IsPost(i) /\ CredentialPresent(i) /\ ~WellFormedPrompt(i))
        => /\ \/ Responds(i, 400, FailureBody("Invalid JSON body"))
              \/ Responds(i, 400, FailureBody("prompt is required"))
           /\ sent[i] = <<>>

(***************************************************************************)
(* C3.  As claimed: every request that arrives while the credential is     *)
(* absent gets the Misconfigured 500 and issues no outbound call.  This    *)
(* fails for a request whose method is not POST, which gets 405.           *)
(***************************************************************************)
MisconfiguredBody ==
    FailureBody("GEMINI_API_KEY not configured. Add it in Vercel project settings.")

\* invocation i starts in this step
Arrives(i) == pc[i] = "idle" /\ pc'[i] # "idle"

C3_AnyRequestMisconfigured ==
    [][\A i \in Invocations :
        (Arrives(i) /\ ~NonEmptyString(env))
        => /\ pc'[i] = "done"
           /\ result'[i].kind = "response"
           /\ result'[i].response.status = 500
           /\ result'[i].response.body = MisconfiguredBody
           /\ sent'[i] = <<>>]_vars

\* C3, amended: every POST request that arrives while the credential is
\* absent (unset or empty) completes at once with the Misconfigured 500 and
\* has issued no outbound call.
C3_PostMisconfigured ==
    [][\A i \in Invocations :
        (Arrives(i) /\ request'[i].method = "POST" /\ ~NonEmptyString(env))
        => /\ pc'[i] = "done"
           /\ result'[i].kind = "response"
           /\ result'[i].response.status = 500
           /\ result'[i].response.body = MisconfiguredBody
           /\ sent'[i] = <<>>]_vars

\* C3 witness: a POST with a good prompt was refused for the unset credential
C3_Witness ==
    \E i \in Invocations :
        /\ Finished(i) /\ IsPost(i) /\ WellFormedPrompt(i)
        /\ apiKey[i].t = "undefined"
        /\ Responds(i, 500, MisconfiguredBody)
        /\ sent[i] = <<>>

(***************************************************************************)
(* C4.  A request whose method is not POST gets 405 with the body          *)
(* {"error":"Method not allowed"}, whatever its body and the credential,   *)
(* and issues no outbound call.                                            *)
(***************************************************************************)
C4_MethodNotAllowed ==
    \A i \in Invocations :
        (pc[i] # "idle" /\ ~IsPost(i))
        => /\ Finished(i)
           /\ Responds(i, 405, "{\"error\":\"Method not allowed\"}")
           /\ sent[i] = <<>>

\* C4 witness: a GET with a good prompt, the credential set, was refused
C4_Witness ==
    \E i \in Invocations :
        /\ request[i].method = "GET" /\ WellFormedPrompt(i)
        /\ NonEmptyString(env)
        /\ Responds(i, 405, "{\"error\":\"Method not allowed\"}")

(***************************************************************************)
(* C5.  Every invocation completes by returning one JSON response, either  *)
(* Success {image, mimeType} with status 200 or Failure {error} with a     *)
(* status in {400, 405, 500, 502}; it never throws.  The code breaks this  *)
(* for the request body null, whose destructuring throws outside any try.  *)
(***************************************************************************)
IsSuccessBody(b) ==
    /\ StartsWith(b, "{\"image\":\"")
    /\ Contains(b, "\",\"mimeType\":\"")
    /\ EndsWith(b, "\"}")
    /\ ~Contains(b, "\"error\":")
IsFailureBody(b) ==
    /\ StartsWith(b, "{\"error\":\"")
    /\ EndsWith(b, "\"}")
    /\ ~Contains(b, "\"image\":")
    /\ ~Contains(b, "\"mimeType\":")

C5_AlwaysOneJsonResult ==
    \A i \in Invocations :
        Finished(i)
        => /\ result[i].kind = "response"
           /\ result[i].response.contentType = "application/json"
           /\ \/ /\ result[i].response.status = 200
                 /\ IsSuccessBody(result[i].response.body)
              \/ /\ result[i].response.status \in {400, 405, 500, 502}
                 /\ IsFailureBody(result[i].response.body)

(***************************************************************************)
(* C6.  An upstream response with a status outside 200..299 and a body     *)
(* text gets 502 whose message holds the upstream status code and an       *)
(* excerpt of the body: a prefix of at most 300 characters, which is the   *)
(* whole body when the body is shorter than 200 characters.                *)
(***************************************************************************)
C6_UpstreamHttpError ==
    \A i \in Invocations :
        (/\ Finished(i)
         /\ upstream[i].kind = "response"
         /\ upstream[i].status \notin 200..299
         /\ upstream[i].body.kind = "text")
        => \E k \in 0..300 :
            /\ k <= Len(upstream[i].body.text)
            /\ k = Len(upstream[i].body.text) \/ k >= 200
            /\ Responds(i, 502,
                   FailureBody("Gemini API error (" \o ToString(upstream[i].status)
                               \o "): " \o SubSeq(upstream[i].body.text, 1, k)))
            /\ Contains(result[i].response.body, ToString(upstream[i].status))

\* C6 witness: a 503 whose body is longer than 300 characters was relayed
C6_Witness ==
    \E i \in Invocations :
        /\ Finished(i)
        /\ upstream[i].kind = "response"
        /\ upstream[i].status = 503
        /\ upstream[i].body.kind = "text"
        /\ Len(upstream[i].body.text) > 300
        /\ result[i].kind = "response"
        /\ result[i].response.status = 502
        /\ StartsWith(result[i].response.body, "{\"error\":\"Gemini API error (503): 0123")

(***************************************************************************)
(* C7.  As claimed: a success status whose body has an embedded error      *)
(* object gets 502 whose error string is the embedded error.message, also  *)
(* when the body holds candidates with an image.  This fails for an error  *)
(* object without a message or with an empty one.                          *)
(***************************************************************************)
CarriesErrorObject(v) == Has(v, "error") /\ v.f.error.t = "object"

C7_EmbeddedMessageRelayed ==
    \A i \in Invocations :
        (Finished(i) /\ UpstreamOkJson(i) /\ CarriesErrorObject(UpstreamData(i)))
        => /\ Has(UpstreamData(i).f.error, "message")
           /\ UpstreamData(i).f.error.f.message.t = "string"
           /\ Responds(i, 502, FailureBody(UpstreamData(i).f.error.f.message.s))

\* C7, amended: the error string is the embedded error.message when that
\* is a non-empty string, and the fixed "Gemini API error" when the error
\* object has no message or an empty one; also when the body holds
\* candidates with an image.
C7_EmbeddedError ==
    \A i \in Invocations :
        (Finished(i) /\ UpstreamOkJson(i) /\ CarriesErrorObject(UpstreamData(i)))
        => LET e == UpstreamData(i).f.error IN
           Responds(i, 502,
               FailureBody(IF Has(e, "message") /\ NonEmptyString(e.f.message)
                           THEN e.f.message.s
                           ELSE "Gemini API error"))

\* C7 witness: an error with a message won over an image in the same body
C7_Witness ==
    \E i \in Invocations :
        /\ Finished(i) /\ UpstreamOkJson(i)
        /\ CarriesErrorObject(UpstreamData(i))
        /\ HasPartsList(UpstreamData(i))
        /\ \E k \in 1..Len(PartsList(UpstreamData(i))) :
                IsImagePart(PartsList(UpstreamData(i))[k])
        /\ Responds(i, 502, FailureBody("Quota exceeded"))

(***************************************************************************)
(* C8.  A success status whose body has no embedded error and whose first  *)
(* candidate's parts are all text parts, the empty list included, gets     *)
(* 502 with "No image data in Gemini response", never Success.             *)
(***************************************************************************)
IsTextPart(p) == Has(p, "text") /\ ~Has(p, "inlineData")

C8_TextOnlyParts ==
    \A i \in Invocations :
        (/\ Finished(i) /\ UpstreamOkJson(i)
         /\ ~CarriesError(UpstreamData(i))
         /\ HasPartsList(UpstreamData(i))
         /\ \A k \in 1..Len(PartsList(UpstreamData(i))) :
                IsTextPart(PartsList(UpstreamData(i))[k]))
        => Responds(i, 502, FailureBody("No image data in Gemini response"))

\* C8 witness: the empty parts list was answered with "no image data"
C8_Witness ==
    \E i \in Invocations :
        /\ Finished(i) /\ UpstreamOkJson(i)
        /\ ~CarriesError(UpstreamData(i))
        /\ HasPartsList(UpstreamData(i))
        /\ PartsList(UpstreamData(i)) = <<>>
        /\ Responds(i, 502, FailureBody("No image data in Gemini response"))

(***************************************************************************)
(* C9.  No invocation issues more than one outbound call; an invocation    *)
(* that passed validation has issued exactly one from the moment it waits  *)
(* for the provider, and still exactly one once the call has failed and    *)
(* the Failure is returned.                                                *)
(***************************************************************************)
C9_ExactlyOneCall ==
    \A i \in Invocations :
        /\ Len(sent[i]) <= 1
        /\ (Validated(i) /\ pc[i] \in {"awaitFetch", "awaitText", "awaitJson", "done"})
            => Len(sent[i]) = 1
        /\ upstream[i].kind # "none" => Len(sent[i]) = 1
        /\ (Finished(i) /\ upstream[i].kind = "rejected")
            => /\ result[i].kind = "response"
               /\ result[i].response.status = 500

\* C9 witness: the call threw, the Failure was returned, one call was made
C9_Witness ==
    \E i \in Invocations :
        /\ Finished(i) /\ Validated(i)
        /\ upstream[i].kind = "rejected"
        /\ Responds(i, 500, FailureBody("fetch failed"))
        /\ Len(sent[i]) = 1

(***************************************************************************)
(* C10.  A success status whose parsed body has no embedded error and      *)
(* lacks candidates[0].content.parts (a body that is null or no object, a  *)
(* missing or empty candidates list, a first candidate without content or  *)
(* parts) gets 502 with "No image in Gemini response".  The code breaks    *)
(* this for the body null.                                                 *)
(***************************************************************************)
LacksParts(v) ==
    \/ ~Has(v, "candidates")
    \/ v.f.candidates.t # "array"
    \/ Len(v.f.candidates.e) = 0
    \/ ~Has(v.f.candidates.e[1], "content")
    \/ ~Has(v.f.candidates.e[1].f.content, "parts")
    \/ v.f.candidates.e[1].f.content.f.parts.t = "null"

C10_NoContent ==
    \A i \in Invocations :
        (/\ Finished(i) /\ UpstreamOkJson(i)
         /\ ~CarriesError(UpstreamData(i))
         /\ LacksParts(UpstreamData(i)))
        => Responds(i, 502, FailureBody("No image in Gemini response"))

\* C10 apart from the body null
C10_NoContentExceptNull ==
    \A i \in Invocations :
        (/\ Finished(i) /\ UpstreamOkJson(i)
         /\ UpstreamData(i).t # "null"
         /\ ~CarriesError(UpstreamData(i))
         /\ LacksParts(UpstreamData(i)))
        => Responds(i, 502, FailureBody("No image in Gemini response"))

\* C5 apart from the request body null
C5_ExceptNullBody ==
    \A i \in Invocations :
        (Finished(i) /\ ~(request[i].body.parses /\ request[i].body.value.t = "null"))
        => /\ result[i].kind = "response"
           /\ \/ /\ result[i].response.status = 200
                 /\ IsSuccessBody(result[i].response.body)
              \/ /\ result[i].response.status \in {400, 405, 500, 502}
                 /\ IsFailureBody(result[i].response.body)

(***************************************************************************)
(* C11.  As claimed: on every failure path after the outbound call (an     *)
(* upstream status outside 200..299, an in-body error on a success status, *)
(* an exception during the call) a log entry has been written by the time  *)
(* the Failure is returned.  This fails for the in-body error, which is    *)
(* returned without a log entry.                                           *)
(***************************************************************************)
\* the call ended in an upstream status outside 200..299 whose text was read
HttpFailurePath(i) ==
    /\ upstream[i].kind = "response"
    /\ upstream[i].status \notin 200..299
    /\ upstream[i].body.kind = "text"
\* the call ended in a success status whose body has an embedded error
InBodyErrorPath(i) == UpstreamOkJson(i) /\ CarriesError(UpstreamData(i))
\* the call, or the reading of its answer, threw
ExceptionPath(i) ==
    \/ upstream[i].kind = "rejected"
    \/ /\ upstream[i].kind = "response"
       /\ \/ upstream[i].body.kind = "unreadable"
          \/ upstream[i].status \in 200..299 /\ upstream[i].body.kind = "text"

C11_EveryFailurePathLogs ==
    \A i \in Invocations :
        (Finished(i) /\ (HttpFailurePath(i) \/ InBodyErrorPath(i) \/ ExceptionPath(i)))
        => /\ result[i].kind = "response"
           /\ result[i].response.status \in {500, 502}
           /\ Len(log[i]) >= 1

\* C11 on the paths that do log: on the failure paths of an upstream status outside
\* 200..299 and of an exception thrown during the call, one log entry has
\* been written by the time the Failure is returned (the status and the
\* whole body text, or the error); the in-body provider error on a success
\* status is returned as a Failure without any log entry.
C11_FailureLogging ==
    \A i \in Invocations :
        Finished(i) =>
            /\ HttpFailurePath(i) =>
                /\ result[i].kind = "response"
                /\ result[i].response.status = 502
                /\ log[i] = <<[label |-> "Gemini API error:",
                               args |-> <<[t |-> "number", n |-> upstream[i].status],
                                          [t |-> "string", s |-> upstream[i].body.text]>>]>>
            /\ ExceptionPath(i) =>
                /\ result[i].kind = "response"
                /\ result[i].response.status = 500
                /\ Len(log[i]) = 1
                /\ log[i][1].label = "Regenerate error:"
                /\ upstream[i].kind = "rejected" => log[i][1].args = <<upstream[i].err>>
            \* every 500 after the outbound call comes from the catch block
            /\ (/\ upstream[i].kind # "none"
                /\ result[i].kind = "response"
                /\ result[i].response.status = 500) =>
                /\ Len(log[i]) = 1
                /\ log[i][1].label = "Regenerate error:"
            /\ InBodyErrorPath(i) =>
                /\ result[i].kind = "response"
                /\ result[i].response.status = 502
                /\ log[i] = <<>>

\* C11 witness: fetch threw; the error was logged and the 500 returned
C11_Witness ==
    \E i \in Invocations :
        /\ Finished(i)
        /\ upstream[i].kind = "rejected"
        /\ upstream[i].err.message = "fetch failed"
        /\ Len(log[i]) = 1
        /\ log[i][1].label = "Regenerate error:"
        /\ result[i].kind = "response"
        /\ result[i].response.status = 500

(***************************************************************************)
(* C12.  When the parts list holds several parts and Success is returned,  *)
(* the result comes from the first part in list order that carries inline  *)
(* image data: image is its data, mimeType its declared MIME type or       *)
(* "image/png" when it declares none; no later image part's data or MIME   *)
(* type is in the result.                                                  *)
(***************************************************************************)
C12_FirstImagePartWins ==
    \A i \in Invocations :
        (/\ Finished(i) /\ UpstreamOkJson(i)
         /\ HasPartsList(UpstreamData(i))
         /\ Len(PartsList(UpstreamData(i))) >= 2
         /\ result[i].kind = "response"
         /\ result[i].response.status = 200)
        => LET ps == PartsList(UpstreamData(i)) IN
           /\ \E k \in 1..Len(ps) : IsImagePart(ps[k])
           /\ LET first == ps[FirstImage(ps)] IN
              /\ result[i].response.body =
                    SuccessBody(ImageData(first),
                                IF DeclaresMime(first) THEN DeclaredMime(first)
                                ELSE "image/png")
              /\ \A j \in (FirstImage(ps) + 1)..Len(ps) :
                    (IsImagePart(ps[j]) /\ ImageData(ps[j]) # ImageData(first))
                    => ~Contains(result[i].response.body, ImageData(ps[j]))

\* C12 witness: an image part without MIME type came first, a JPEG second,
\* and Success carries the first with image/png
C12_Witness ==
    \E i \in Invocations :
        /\ Finished(i) /\ UpstreamOkJson(i)
        /\ HasPartsList(UpstreamData(i))
        /\ PartsList(UpstreamData(i)) =
                <<ImagePartNoMime("iVBORw0K"), ImagePart("/9j/4AAQ", "image/jpeg")>>
        /\ Responds(i, 200, SuccessBody("iVBORw0K", "image/png"))

(***************************************************************************)
(* Concurrent invocations.  The same handler steps, several invocations in *)
(* flight together, each with its own request, credential and upstream     *)
(* response, the inputs drawn from small sets of distinguishable values.   *)
(***************************************************************************)
ConcInvocations == 1..NConc

ConcEnvValues == {Str("key-A"), Str("key-B")}

ConcRequests ==
    {[method |-> "POST", body |-> Parsed(v)] :
        v \in {Obj([prompt |-> Str("make the sofa red")]),
               Obj([prompt |-> Str("add a lamp")])}}

ConcStatuses == {200, 503}

ConcBodies ==
    [status \in ConcStatuses |->
        IF status = 200 THEN
            {JsonBody(Obj([candidates |-> Arr(<<Obj([content |-> Obj([parts |->
                    Arr(<<ImagePart("/9j/4AAQ", "image/jpeg")>>)])])>>)])),
             JsonBody(Obj([error |-> Obj([message |-> Str("Quota exceeded")])]))}
        ELSE {TextBody("overloaded")}]

ConcFetchErrors == {Error("TypeError", "fetch failed")}

InitConc ==
    /\ env \in ConcEnvValues
    /\ pc = [i \in ConcInvocations |-> "idle"]
    /\ request = [i \in ConcInvocations |-> NoRequest]
    /\ apiKey = [i \in ConcInvocations |-> Undefined]
    /\ sent = [i \in ConcInvocations |-> <<>>]
    /\ upstream = [i \in ConcInvocations |-> NoUpstream]
    /\ log = [i \in ConcInvocations |-> <<>>]
    /\ result = [i \in ConcInvocations |-> Pending]

ConcTextSettled(i) == TextSettledFrom(i, ConcBodies[upstream[i].status])
ConcJsonSettled(i) == JsonSettledFrom(i, ConcBodies[upstream[i].status])

NextConc ==
    \/ \E v \in ConcEnvValues : SetEnv(v)
    \/ \E i \in ConcInvocations, req \in ConcRequests : Receive(i, req)
    \/ \E i \in ConcInvocations : RequestJsonSettled(i)
    \/ \E i \in ConcInvocations, err \in ConcFetchErrors : FetchRejected(i, err)
    \/ \E i \in ConcInvocations, status \in ConcStatuses : FetchResolved(i, status)
    \/ \E i \in ConcInvocations : ConcTextSettled(i)
    \/ \E i \in ConcInvocations : ConcJsonSettled(i)

SpecConc == InitConc /\ [][NextConc]_vars

\* everything the handler keeps for invocation i
Local(i) == <<pc[i], request[i], apiKey[i], sent[i], upstream[i], log[i], result[i]>>

\* the strings that tell the invocations' inputs apart
Markers ==
    {"make the sofa red", "add a lamp", "/9j/4AAQ", "Quota exceeded",
     "overloaded", "fetch failed", "key-A", "key-B"}

\* the strings inside a JavaScript value
RECURSIVE StringsIn(_)
StringsIn(v) ==
    CASE v.t = "string" -> {v.s}
      [] v.t = "array" -> UNION {StringsIn(v.e[k]) : k \in 1..Len(v.e)}
      [] v.t = "object" -> UNION {StringsIn(v.f[k]) : k \in DOMAIN v.f}
      [] OTHER -> {}

\* the string m occurs in the request, the credential or the upstream
\* response of invocation i
Owns(i, m) ==
    \/ request[i].body.parses /\ m \in StringsIn(request[i].body.value)
    \/ apiKey[i] = Str(m)
    \/ upstream[i].kind = "rejected" /\ upstream[i].err.message = m
    \/ /\ upstream[i].kind = "response"
       /\ \/ upstream[i].body.kind = "text" /\ Contains(upstream[i].body.text, m)
          \/ upstream[i].body.kind = "json" /\ m \in StringsIn(upstream[i].body.value)

\* an invocation's response is a function of its own request, credential and
\* upstream response, its outbound call carries its own credential and
\* prompt, and no string of another invocation's inputs is in its response
C13_OwnInputsOnly ==
    /\ \A i, j \in ConcInvocations :
        (/\ Finished(i) /\ Finished(j)
         /\ request[i] = request[j]
         /\ apiKey[i] = apiKey[j]
         /\ upstream[i] = upstream[j])
        => result[i] = result[j]
    /\ \A i \in ConcInvocations :
        /\ Len(sent[i]) <= 1
        /\ sent[i] # <<>> =>
              sent[i] = <<OutboundCall(apiKey[i],
                                       Get(request[i].body.value, "prompt"))>>
        /\ (Finished(i) /\ result[i].kind = "response") =>
              \A m \in Markers :
                  Contains(result[i].response.body, m) => Owns(i, m)

\* a step changes what is kept for at most one invocation, a change of the
\* environment changes none, and the credential is read once, on arrival
C13_StepIsLocal ==
    /\ \A i, j \in ConcInvocations :
        (i # j /\ Local(i)' # Local(i)) => Local(j)' = Local(j)
    /\ env' # env => \A i \in ConcInvocations : Local(i)' = Local(i)
    /\ \A i \in ConcInvocations :
        /\ (pc[i] = "idle" /\ pc'[i] # "idle") => apiKey'[i] = env
        /\ pc[i] # "idle" => (apiKey'[i] = apiKey[i] /\ request'[i] = request[i])

(***************************************************************************)
(* C13.  Under every interleaving of concurrent invocations, the response  *)
(* of each is determined by its own request, the credential it read on its *)
(* own arrival and its own upstream response; no step of one invocation    *)
(* changes what is kept for another, and no prompt, image or error of one  *)
(* invocation is in the response of another.                               *)
(***************************************************************************)
C13_Isolation == []C13_OwnInputsOnly /\ [][C13_StepIsLocal]_vars

\* C13 witness: one invocation has answered with its own image while another,
\* with another prompt and another credential, is suspended at its outbound
\* call
C13_Witness ==
    \E i, j \in ConcInvocations :
        /\ i # j
        /\ Responds(i, 200, SuccessBody("/9j/4AAQ", "image/jpeg"))
        /\ request[i].body = Parsed(Obj([prompt |-> Str("make the sofa red")]))
        /\ apiKey[i] = Str("key-A")
        /\ pc[j] = "awaitFetch"
        /\ request[j].body = Parsed(Obj([prompt |-> Str("add a lamp")]))
        /\ apiKey[j] = Str("key-B")

====
